---- MODULE Spec2Model ----
(***************************************************************************)
(* SmartWealth (mansan1230/wealth-app): the local persistent store hook,   *)
(* the CRUD handlers of the three record views and the gist backup /       *)
(* restore handlers of src/App.tsx, as one state machine.                  *)
(*                                                                         *)
(* A record is abstracted to its id and one caller-supplied form field     *)
(* (val): the currentPrice of an asset, the premium of a trade (both come  *)
(* from parseFloat and may be NaN), the name of an airdrop project.        *)
(* A JSON text is represented by the value JSON.parse gives back for it,   *)
(* so JSON.stringify is the lossy direction (NaN becomes null).            *)
(***************************************************************************)
EXTENDS Integers, Sequences, FiniteSets, TLC

-----------------------------------------------------------------------------
(* Bounds of the model *)

MaxTicks == 1            \* Date.now() takes the values FirstNow .. FirstNow + MaxTicks
MaxGists == 2            \* remote documents the gist service can hold
SyncRequestBudget == 2   \* SyncSpec: sync operations that pass their precondition
RaceRequestBudget == 3   \* RaceSpec: sync operations that pass their precondition
BackupCrudBudget == 1    \* BackupSpec: records saved in the asset view
BackupRequestBudget == 2 \* BackupSpec: sync operations that pass their precondition
CrudBudget == 2          \* CrudSpec: create / update / delete operations
StoreCrudBudget == 1     \* StoreSpec: create / update / delete operations
StoreRequestBudget == 1  \* StoreSpec: downloads that pass their precondition
StoreWriteFailures == 1  \* StoreSpec: localStorage.setItem calls that throw
LoadCrudBudget == 2      \* LoadSpec: create / update / delete operations
RefreshCrudBudget == 2   \* RefreshSpec: create / update / delete / refresh operations
RefreshMaxQuotes == 1    \* RefreshSpec: quotes in one stock response
MaxAssets == 2           \* PriceSpec: records in the list passed to fetchMarketPrices
MaxQuotes == 2           \* PriceSpec: quotes in the result of the stock source

-----------------------------------------------------------------------------
(* Keys, routes and seeds *)

AssetsKey == "smartwealth_assets"
TradesKey == "smartwealth_trades"
PnLKey == "smartwealth_pnl"
AirdropsKey == "smartwealth_airdrops"
SyncConfigKey == "smartwealth_sync_config"

CollKeys == {AssetsKey, TradesKey, PnLKey, AirdropsKey}

\* The routes of the application and the collection each view edits.
Routes == {"/", "/options", "/pnl", "/airdrops"}
CrudRoutes == {"/", "/options", "/airdrops"}

KeyOf(route) ==
    CASE route = "/" -> AssetsKey
      [] route = "/options" -> TradesKey
      [] route = "/airdrops" -> AirdropsKey
      [] OTHER -> PnLKey

NaN == "NaN"
JsonNull == "null"

SeedAssets ==
    << [id |-> 1, val |-> "175.5"], [id |-> 2, val |-> "64000"], [id |-> 3, val |-> "1"] >>

SeedAirdrops == << [id |-> 1, val |-> "Example Layer2"] >>

InitialValue(key) ==
    CASE key = AssetsKey -> SeedAssets
      [] key = AirdropsKey -> SeedAirdrops
      [] OTHER -> << >>

\* gistId: '' and lastSyncTime: undefined are both falsy; they are modelled as 0.
InitialSyncConfig == [githubToken |-> "", gistId |-> 0, lastSyncTime |-> 0]

\* Date.now() is far above the seeded ids "1", "2", "3".
FirstNow == Len(SeedAssets) + 1

\* What a form can hold in the abstracted field when it is saved.
FormVals(route) ==
    IF route = "/airdrops" THEN {"Layer3", "zkDrop"} ELSE {"100", NaN}

Tokens == {"", "ghp_token"}
GistIds == 1 .. MaxGists

-----------------------------------------------------------------------------
(* JSON *)

\* JSON.stringify of one record: a NaN number is written as null.
StringifyRecord(r) == [r EXCEPT !.val = IF @ = NaN THEN JsonNull ELSE @]

\* JSON.stringify of a collection.
StringifyList(list) == [i \in DOMAIN list |-> StringifyRecord(list[i])]

\* The item localStorage holds for a key: none, or the text of a value.
NoItem == [t |-> "none", v |-> << >>]
TextOf(v) == [t |-> "text", v |-> v]

\* An item whose text JSON.parse rejects.
CorruptItem == [t |-> "corrupt", v |-> << >>]

\* JSON.stringify of whatever a key of the store holds in memory.
Stringify(key, value) ==
    IF key = SyncConfigKey THEN TextOf(value) ELSE TextOf(StringifyList(value))

-----------------------------------------------------------------------------
VARIABLES
    mem,              \* storedValue of the four collection hooks, by key
    syncConfig,       \* storedValue of the sync configuration hook
    localStorage,     \* window.localStorage: key -> item
    route,            \* the mounted view
    editingId,        \* editingId / isEditing of the mounted view (0: null)
    syncStatus,       \* 'idle' | 'loading' | 'success' | 'error'
    syncMessage,
    showSyncSettings,
    inflight,         \* the sync handlers suspended at their await fetch(...)
    timers,           \* pending setTimeout(() => setSyncStatus('idle'), 3000)
    gists,            \* the remote store: gist id -> file content
    now,              \* Date.now()
    crudLeft,         \* operations left in the budget of the run
    requestsLeft,
    writeFailuresLeft,
    last,             \* what the last sync handler did
    priceFetch,       \* the call of fetchMarketPrices: its arguments, locals and result
    journal,          \* the row of the options journal being rendered
    refresh           \* handleUpdatePrices suspended at await fetchMarketPrices(assets)

vars ==
    << mem, syncConfig, localStorage, route, editingId, syncStatus, syncMessage,
       showSyncSettings, inflight, timers, gists, now, crudLeft, requestsLeft,
       writeFailuresLeft, last, priceFetch, journal, refresh >>

\* What the record views and the sync handlers leave alone.
serviceVars == << priceFetch, journal, refresh >>

syncVars == << syncStatus, syncMessage, inflight, timers, gists, requestsLeft >>

\* The state of the App component and of its environment.
appVars ==
    << mem, syncConfig, localStorage, route, editingId, syncStatus, syncMessage,
       showSyncSettings, inflight, timers, gists, now, crudLeft, requestsLeft,
       writeFailuresLeft, last >>

-----------------------------------------------------------------------------
(* useLocalStorage *)

\* The outcomes of one localStorage.setItem call: TRUE when it stores the text,
\* FALSE when it throws (the hook catches and logs the error).
WriteOutcomes == IF writeFailuresLeft > 0 THEN {TRUE, FALSE} ELSE {TRUE}

\* Mutant of SetItem: the hook serializes storedValue, the value of the previous
\* render, instead of valueToStore.
SetItemOfStoredValue(ls, key, value, ok) ==
    IF ok
    THEN [ls EXCEPT ![key] = Stringify(key, IF key = SyncConfigKey THEN syncConfig ELSE mem[key])]
    ELSE ls

\* window.localStorage.setItem(key, JSON.stringify(valueToStore)) on the store ls.
SetItem(ls, key, value, ok) ==
    IF ok THEN [ls EXCEPT ![key] = Stringify(key, value)] ELSE ls

\* The initial state of a hook: the parsed item, or initialValue when the key is
\* missing or JSON.parse throws.
LoadValue(ls, key, initialValue) ==
    IF ls[key].t = "text" THEN ls[key].v ELSE initialValue

\* Mutant of StoreAfterLoad: the initializer saves the default it falls back to.
StoreAfterLoadPersisted(ls) ==
    [k \in DOMAIN ls |->
        IF ls[k].t = "text" THEN ls[k]
        ELSE IF k = SyncConfigKey THEN Stringify(k, InitialSyncConfig)
        ELSE Stringify(k, InitialValue(k))]

\* The store after the initializers of the five hooks: they only read it.
StoreAfterLoad(ls) == ls

\* The route before the first render.
NotMounted == "unmounted"

\* The first render of App: every hook loads its key.
Mount ==
    /\ route = NotMounted
    /\ mem' = [k \in CollKeys |-> LoadValue(localStorage, k, InitialValue(k))]
    /\ syncConfig' = LoadValue(localStorage, SyncConfigKey, InitialSyncConfig)
    /\ localStorage' = StoreAfterLoad(localStorage)
    /\ route' = "/"
    /\ UNCHANGED << serviceVars, editingId, showSyncSettings, now, crudLeft,
                    writeFailuresLeft, last >>
    /\ UNCHANGED syncVars

\* Mutant of SetValue: the state is set only after the store accepted the text.
SetValueStoreFirst(key, value, ok) ==
    /\ mem' = IF ok THEN [mem EXCEPT ![key] = value] ELSE mem
    /\ localStorage' = SetItem(localStorage, key, value, ok)
    /\ writeFailuresLeft' = IF ok THEN writeFailuresLeft ELSE writeFailuresLeft - 1

\* setValue of a collection hook, called with a plain value: setStoredValue,
\* then setItem inside try / catch.
SetValue(key, value, ok) ==
    /\ mem' = [mem EXCEPT ![key] = value]
    /\ localStorage' = SetItem(localStorage, key, value, ok)
    /\ writeFailuresLeft' = IF ok THEN writeFailuresLeft ELSE writeFailuresLeft - 1

\* setValue of the sync configuration hook, called with a plain value.
SetSyncConfig(value, ok) ==
    /\ syncConfig' = value
    /\ localStorage' = SetItem(localStorage, SyncConfigKey, value, ok)
    /\ writeFailuresLeft' = IF ok THEN writeFailuresLeft ELSE writeFailuresLeft - 1

-----------------------------------------------------------------------------
(* The record views: AssetDashboard, OptionsJournal, AirdropTracker *)

\* id: Date.now().toString()
NewId == now

\* Mutant of NewRecord: a new trade is given the closePrice 0.
NewRecordClosed(r, id, val) ==
    IF r = "/options" THEN [id |-> id, val |-> val, closePrice |-> "0"]
    ELSE [id |-> id, val |-> val]

\* const newTrade = { id: Date.now().toString(), fields of the form } (and
\* the new asset, the new project): no closePrice property.
NewRecord(r, id, val) == [id |-> id, val |-> val]

\* trade.closePrice
ClosePriceOf(trade) ==
    IF "closePrice" \in DOMAIN trade THEN trade.closePrice ELSE "undefined"

\* Mutant of UpdatedList: the fields of the form are written to every record.
UpdatedListAll(list, id, val) == [i \in DOMAIN list |-> [list[i] EXCEPT !.val = val]]

\* list.map(a => a.id === editingId ? {...a, fields of the form} : a)
UpdatedList(list, id, val) ==
    [i \in DOMAIN list |-> IF list[i].id = id THEN [list[i] EXCEPT !.val = val] ELSE list[i]]

\* setAssets([...assets, asset]) appends; setTrades([newTrade, ...trades]) and
\* setAirdrops([newProject, ...airdrops]) prepend.
CreatedList(r, list, rec) ==
    IF r = "/" THEN Append(list, rec) ELSE << rec >> \o list

\* Mutant of FilteredList: the test of the filter is turned round.
FilteredListKeepOnly(list, id) == SelectSeq(list, LAMBDA a : a.id = id)

\* list.filter(a => a.id !== id)
RECURSIVE FilteredList(_, _)
FilteredList(list, id) ==
    IF list = << >> THEN << >>
    ELSE IF Head(list).id = id THEN FilteredList(Tail(list), id)
    ELSE << Head(list) >> \o FilteredList(Tail(list), id)

\* handleSaveAsset / handleSave with a form that passes the required-field check:
\* update the edited record or create a new one, then resetForm().
SaveRecord ==
    /\ route \in CrudRoutes
    /\ crudLeft > 0
    /\ \E val \in FormVals(route), ok \in WriteOutcomes :
          LET key == KeyOf(route)
              list == mem[key]
          IN  IF editingId # 0
              THEN SetValue(key, UpdatedList(list, editingId, val), ok)
              ELSE SetValue(key, CreatedList(route, list, NewRecord(route, NewId, val)), ok)
    /\ editingId' = 0
    /\ crudLeft' = crudLeft - 1
    /\ UNCHANGED << serviceVars, syncConfig, route, showSyncSettings, now, last >>
    /\ UNCHANGED syncVars

\* handleEditClick / handleEdit on a listed record.
EditRecord ==
    /\ route \in CrudRoutes
    /\ crudLeft > 0
    /\ \E i \in DOMAIN mem[KeyOf(route)] : editingId' = mem[KeyOf(route)][i].id
    /\ UNCHANGED << serviceVars, mem, syncConfig, localStorage, route, showSyncSettings, now,
                    crudLeft, writeFailuresLeft, last >>
    /\ UNCHANGED syncVars

\* resetForm() from the cancel button.
CancelEdit ==
    /\ route \in CrudRoutes
    /\ editingId # 0
    /\ editingId' = 0
    /\ UNCHANGED << serviceVars, mem, syncConfig, localStorage, route, showSyncSettings, now,
                    crudLeft, writeFailuresLeft, last >>
    /\ UNCHANGED syncVars

\* handleDelete(id) with the confirmation accepted.
DeleteRecord ==
    /\ route \in CrudRoutes
    /\ crudLeft > 0
    /\ \E i \in DOMAIN mem[KeyOf(route)], ok \in WriteOutcomes :
          LET key == KeyOf(route)
              id == mem[key][i].id
          IN  /\ SetValue(key, FilteredList(mem[key], id), ok)
              /\ editingId' = IF editingId = id THEN 0 ELSE editingId
    /\ crudLeft' = crudLeft - 1
    /\ UNCHANGED << serviceVars, syncConfig, route, showSyncSettings, now, last >>
    /\ UNCHANGED syncVars

\* handleDelete(id) with the confirmation declined: confirm(...) returns false
\* and the handler does nothing.
DeleteDeclined ==
    /\ route \in CrudRoutes
    /\ crudLeft > 0
    /\ mem[KeyOf(route)] # << >>
    /\ crudLeft' = crudLeft - 1
    /\ UNCHANGED << serviceVars, mem, syncConfig, localStorage, route, editingId,
                    showSyncSettings, now, writeFailuresLeft, last >>
    /\ UNCHANGED syncVars

\* A route change unmounts the view: its form state is lost.
Navigate ==
    /\ route \in Routes
    /\ crudLeft > 0
    /\ \E r \in Routes \ {route} : route' = r
    /\ editingId' = 0
    /\ UNCHANGED << serviceVars, mem, syncConfig, localStorage, showSyncSettings, now,
                    crudLeft, writeFailuresLeft, last >>
    /\ UNCHANGED syncVars

\* Time passes: Date.now() has millisecond resolution, so two handlers may or may
\* not see different values.
Tick ==
    /\ now < FirstNow + MaxTicks
    /\ now' = now + 1
    /\ UNCHANGED << serviceVars, mem, syncConfig, localStorage, route, editingId, showSyncSettings,
                    crudLeft, writeFailuresLeft, last >>
    /\ UNCHANGED syncVars

-----------------------------------------------------------------------------
(* The backup document *)

\* What the parsed backup holds under one collection key: the key is absent
\* (parsed.key is undefined), present with null, or present with a list.
AbsentSlot == [t |-> "absent", items |-> << >>]
NullSlot == [t |-> "null", items |-> << >>]
ListSlot(items) == [t |-> "list", items |-> items]

\* Mutant of FileContent: the payload carries the stored token as well.
FileContentWithToken(collections, time) ==
    [payload |-> [k \in CollKeys |-> ListSlot(StringifyList(collections[k]))],
     lastUpdated |-> time,
     githubToken |-> syncConfig.githubToken]

\* JSON.stringify(payload, null, 2) of { assets, trades, manualPnL, airdrops,
\* lastUpdated: new Date().toISOString() }: the content of smartwealth_data.json.
FileContent(collections, time) ==
    [payload |-> [k \in CollKeys |-> ListSlot(StringifyList(collections[k]))],
     lastUpdated |-> time]

\* Documents written by something other than this build of the application (a
\* partial or older backup, a hand-edited gist): no key at all, or one key,
\* holding null or [].
ForeignPayloads ==
    { [k \in CollKeys |-> AbsentSlot] } \cup
    { [k \in CollKeys |-> IF k = key THEN slot ELSE AbsentSlot] :
        key \in CollKeys, slot \in {NullSlot, ListSlot(<< >>)} }

ForeignContents == { [payload |-> p, lastUpdated |-> 0] : p \in ForeignPayloads }

NoGist == [payload |-> [k \in CollKeys |-> AbsentSlot], lastUpdated |-> -1]

\* Mutant of Truthy: the restore block tests parsed.key !== null, which lets an
\* absent key (undefined) through.
NotNull(slot) == slot.t # "null"

\* if (parsed.assets): undefined and null are falsy, every array is truthy.
Truthy(slot) == slot.t = "list"

\* The value a collection holds after the restore block of the download handler.
Restored(slot, old) == IF Truthy(slot) THEN slot.items ELSE old

-----------------------------------------------------------------------------
(* Cloud sync: the settings panel *)

ToggleSyncSettings ==
    /\ showSyncSettings' = ~showSyncSettings
    /\ UNCHANGED << serviceVars, mem, syncConfig, localStorage, route, editingId, now,
                    crudLeft, writeFailuresLeft, last >>
    /\ UNCHANGED syncVars

\* onChange of the two inputs: setSyncConfig({...syncConfig, field: e.target.value})
EditSyncConfig ==
    /\ showSyncSettings
    /\ \E ok \in WriteOutcomes :
          \/ \E t \in Tokens \ {syncConfig.githubToken} :
                SetSyncConfig([syncConfig EXCEPT !.githubToken = t], ok)
          \/ \E g \in (GistIds \cup {0}) \ {syncConfig.gistId} :
                SetSyncConfig([syncConfig EXCEPT !.gistId = g], ok)
    /\ UNCHANGED << serviceVars, mem, route, editingId, showSyncSettings, now, crudLeft, last >>
    /\ UNCHANGED syncVars

-----------------------------------------------------------------------------
(* Cloud sync: upload *)

\* The controls are disabled while syncStatus === 'loading'.
ControlsEnabled == syncStatus # "loading"

\* method: POST creates a new document, PATCH updates the one of syncConfig.gistId.
UploadMethod(cfg) == IF cfg.gistId # 0 THEN "PATCH" ELSE "POST"

\* if (!syncConfig.githubToken) { alert(...); setShowSyncSettings(true); return; }
UploadPrecondition(cfg) == cfg.githubToken # ""

\* Mutant of DownloadPrecondition: only the token is required.
DownloadPreconditionTokenOnly(cfg) == cfg.githubToken # ""

\* if (!syncConfig.githubToken || !syncConfig.gistId) { alert(...); ...; return; }
DownloadPrecondition(cfg) == cfg.githubToken # "" /\ cfg.gistId # 0

\* handleUploadToGist without a token: alert, open the settings, return.
UploadRejected ==
    /\ ControlsEnabled
    /\ ~UploadPrecondition(syncConfig)
    /\ showSyncSettings' = TRUE
    /\ last' = "uploadRejected"
    /\ UNCHANGED << serviceVars, mem, syncConfig, localStorage, route, editingId, now,
                    crudLeft, writeFailuresLeft >>
    /\ UNCHANGED syncVars

\* handleUploadToGist up to its await fetch(...): the handler keeps the
\* syncConfig and the collections of the render it was created in.
UploadStart ==
    /\ ControlsEnabled
    /\ UploadPrecondition(syncConfig)
    /\ requestsLeft > 0
    /\ syncStatus' = "loading"
    /\ syncMessage' = "Uploading..."
    /\ inflight' = inflight \cup
          { [kind |-> "upload", n |-> requestsLeft, cfg |-> syncConfig,
             method |-> UploadMethod(syncConfig),
             content |-> FileContent(mem, now)] }
    /\ requestsLeft' = requestsLeft - 1
    /\ last' = "uploadStarted"
    /\ UNCHANGED << serviceVars, mem, syncConfig, localStorage, route, editingId, showSyncSettings,
                    timers, gists, now, crudLeft, writeFailuresLeft >>

\* const valueToStore = value instanceof Function ? value(storedValue) : value
\* The argument of a functional update is the storedValue of the render that
\* created this setValue (closureValue), not the value the hook holds when the
\* update runs (currentValue).
HookPrev(closureValue, currentValue) == closureValue

\* Which of the writes of one handler fail: at most writeFailuresLeft of them.
FailingSets(keys) == { F \in SUBSET keys : Cardinality(F) <= writeFailuresLeft }

\* Mutant of UploadErrorMessage: every response that is not OK gets the generic
\* message.
UploadErrorMessageGeneric(status, cfg) == "GitHub API Error"

\* if (!response.ok) { if (response.status === 404 && syncConfig.gistId) ... }:
\* the message of the error thrown for a response that is not OK.
UploadErrorMessage(status, cfg) ==
    IF status = "404" /\ cfg.gistId # 0
    THEN "Gist ID not found. Clear ID to create new."
    ELSE "GitHub API Error"

\* The responses the service can give to the request of an upload: the fetch
\* fails, or the service answers 404, another error status, or OK with the id
\* of the document it wrote.
FreeGistIds == { g \in GistIds : gists[g] = NoGist }

UploadTargets(op) ==
    IF op.method = "POST" THEN FreeGistIds
    ELSE { g \in GistIds : g = op.cfg.gistId /\ gists[g] # NoGist }

\* Mutant of FailureStatus: the catch blocks set the message and leave the status.
FailureStatusLeftLoading == "loading"

\* setSyncStatus('error') of the catch blocks.
FailureStatus == "error"

\* The outcomes of a request that make the handler throw: the fetch rejects, or
\* the service answers 404 or another error status.
FailureOutcomes == {"neterr", "404", "500"}

\* catch (error) of handleUploadToGist: setSyncMessage(error.message || ...).
\* Nothing but the status and the message changes.
UploadFailedWith(op, outcome) ==
    /\ op \in inflight
    /\ op.kind = "upload"
    /\ outcome \in FailureOutcomes
    /\ inflight' = inflight \ {op}
    /\ syncStatus' = FailureStatus
    /\ syncMessage' =
          IF outcome = "neterr" THEN "Failed to fetch" ELSE UploadErrorMessage(outcome, op.cfg)
    /\ last' = IF outcome = "404" THEN "upload404" ELSE "uploadError"
    /\ UNCHANGED << serviceVars, mem, syncConfig, localStorage, route, editingId, showSyncSettings,
                    timers, gists, now, crudLeft, requestsLeft, writeFailuresLeft >>

UploadFailed ==
    \E op \in inflight : \E outcome \in FailureOutcomes : UploadFailedWith(op, outcome)

\* The sync configuration after the two setSyncConfig(prev => ...) calls of a
\* successful upload, and the store after their two setItem calls.
ConfigWithGistId(op, id) ==
    IF op.cfg.gistId = 0
    THEN [HookPrev(op.cfg, syncConfig) EXCEPT !.gistId = id]
    ELSE syncConfig

ConfigAfterUpload(op, id) ==
    [HookPrev(op.cfg, ConfigWithGistId(op, id)) EXCEPT !.lastSyncTime = now]

StoreAfterUpload(op, id, failing) ==
    LET first == IF op.cfg.gistId = 0
                 THEN SetItem(localStorage, SyncConfigKey, ConfigWithGistId(op, id),
                              "gistId" \notin failing)
                 ELSE localStorage
    IN  SetItem(first, SyncConfigKey, ConfigAfterUpload(op, id),
                "lastSyncTime" \notin failing)

\* The response is OK: the service wrote the document g; the handler stores the
\* id when it had none, stamps lastSyncTime and reports success.
UploadStored(op, g) ==
    /\ op \in inflight
    /\ op.kind = "upload"
    /\ g \in UploadTargets(op)
    /\ inflight' = inflight \ {op}
    /\ gists' = [gists EXCEPT ![g] = op.content]
    /\ syncConfig' = ConfigAfterUpload(op, g)
    /\ \E failing \in FailingSets(IF op.cfg.gistId = 0
                                   THEN {"gistId", "lastSyncTime"}
                                   ELSE {"lastSyncTime"}) :
          /\ localStorage' = StoreAfterUpload(op, g, failing)
          /\ writeFailuresLeft' = writeFailuresLeft - Cardinality(failing)
    /\ syncStatus' = "success"
    /\ syncMessage' = "Upload Successful!"
    /\ timers' = timers + 1
    /\ last' = IF op.method = "POST" THEN "uploadCreated" ELSE "uploadUpdated"
    /\ UNCHANGED << serviceVars, mem, route, editingId, showSyncSettings, now, crudLeft, requestsLeft >>

UploadSucceeded ==
    \E op \in inflight : \E g \in GistIds : UploadStored(op, g)

\* setTimeout(() => setSyncStatus('idle'), 3000) of a successful operation fires.
TimerFires ==
    /\ timers > 0
    /\ timers' = timers - 1
    /\ syncStatus' = "idle"
    /\ UNCHANGED << serviceVars, mem, syncConfig, localStorage, route, editingId, syncMessage,
                    showSyncSettings, inflight, gists, now, crudLeft, requestsLeft,
                    writeFailuresLeft, last >>

-----------------------------------------------------------------------------
(* Cloud sync: download *)

\* handleDownloadFromGist without a token or without a gist id.
DownloadRejected ==
    /\ ControlsEnabled
    /\ ~DownloadPrecondition(syncConfig)
    /\ showSyncSettings' = TRUE
    /\ last' = "downloadRejected"
    /\ UNCHANGED << serviceVars, mem, syncConfig, localStorage, route, editingId, now,
                    crudLeft, writeFailuresLeft >>
    /\ UNCHANGED syncVars

\* handleDownloadFromGist up to its await fetch(...).
DownloadStart ==
    /\ ControlsEnabled
    /\ DownloadPrecondition(syncConfig)
    /\ requestsLeft > 0
    /\ syncStatus' = "loading"
    /\ syncMessage' = "Downloading..."
    /\ inflight' = inflight \cup
          { [kind |-> "download", n |-> requestsLeft, cfg |-> syncConfig,
             method |-> "GET", content |-> NoGist] }
    /\ requestsLeft' = requestsLeft - 1
    /\ last' = "downloadStarted"
    /\ UNCHANGED << serviceVars, mem, syncConfig, localStorage, route, editingId, showSyncSettings,
                    timers, gists, now, crudLeft, writeFailuresLeft >>

\* What makes handleDownloadFromGist throw: the fetch rejects, the response is
\* not OK, the document has no smartwealth_data.json content, JSON.parse throws,
\* or the parsed content is null (parsed.assets throws).
DownloadFailures == {"neterr", "notok", "nofile", "badjson", "nullcontent"}

\* Mutant of MemAfterFailedDownload: the failure empties the collections.
MemClearedOnFailure(cause) == [k \in CollKeys |-> << >>]

\* The four collections after the catch block: every cause is thrown before the
\* first set call of the restore block.
MemAfterFailedDownload(cause) == mem

\* catch (error) of handleDownloadFromGist.
DownloadFailed ==
    /\ \E op \in inflight :
          /\ op.kind = "download"
          /\ inflight' = inflight \ {op}
    /\ \E cause \in DownloadFailures : mem' = MemAfterFailedDownload(cause)
    /\ syncStatus' = FailureStatus
    /\ syncMessage' = "Download failed"
    /\ last' = "downloadError"
    /\ UNCHANGED << serviceVars, syncConfig, localStorage, route, editingId, showSyncSettings,
                    timers, gists, now, crudLeft, requestsLeft, writeFailuresLeft >>

\* The file contents an OK response to the download op can carry: the document
\* the service holds under the id, or a document written elsewhere.
DownloadContents(op) ==
    { gists[g] : g \in { h \in GistIds : h = op.cfg.gistId /\ gists[h] # NoGist } }
        \cup ForeignContents

\* The keys the restore block writes.
RestoredKeys(content) == { k \in CollKeys : Truthy(content.payload[k]) }

\* The four collections after the restore block.
MemAfterRestore(content) ==
    [k \in CollKeys |-> Restored(content.payload[k], mem[k])]

\* The store after the setItem calls of the restore block and of the
\* setSyncConfig call that follows it.
StoreAfterRestore(content, config, failing) ==
    [k \in DOMAIN localStorage |->
        IF k \in failing THEN localStorage[k]
        ELSE IF k \in RestoredKeys(content)
             THEN Stringify(k, MemAfterRestore(content)[k])
        ELSE IF k = SyncConfigKey THEN Stringify(k, config)
        ELSE localStorage[k]]

\* The body of handleDownloadFromGist after a parsed file content.
DownloadRestore(op, content) ==
    /\ op \in inflight
    /\ op.kind = "download"
    /\ content \in DownloadContents(op)
    /\ inflight' = inflight \ {op}
    /\ mem' = MemAfterRestore(content)
    /\ syncConfig' = [HookPrev(op.cfg, syncConfig) EXCEPT !.lastSyncTime = now]
    /\ \E failing \in FailingSets(RestoredKeys(content) \cup {SyncConfigKey}) :
          /\ localStorage' = StoreAfterRestore(content, syncConfig', failing)
          /\ writeFailuresLeft' = writeFailuresLeft - Cardinality(failing)
    /\ syncStatus' = "success"
    /\ syncMessage' = "Data Restored!"
    /\ timers' = timers + 1
    /\ last' = "downloadOk"
    /\ UNCHANGED << serviceVars, route, editingId, showSyncSettings, gists, now, crudLeft, requestsLeft >>

DownloadSucceeded ==
    \E op \in inflight : \E content \in DownloadContents(op) : DownloadRestore(op, content)

-----------------------------------------------------------------------------
(* priceService: values, strings and inputs *)

\* The value of a field that is not there.
Undefined == "undefined"

\* The numbers a source reports, as JSON writes them.
PositiveNumbers == {"175", "65000"}

Numbers == PositiveNumbers \cup {"0", "-5"}

\* Number(price)
NumberOf(price) ==
    CASE price \in Numbers -> price
      [] price = JsonNull -> "0"
      [] OTHER -> NaN

\* The truthiness of a price field, as if (data[geckoId].usd) reads it.
TruthyValue(v) == v \notin {Undefined, JsonNull, NaN, "0", ""}

\* String.prototype.toUpperCase on the strings of the model.
ToUpperCase(s) ==
    CASE s = "btc" -> "BTC"
      [] s = "aapl" -> "AAPL"
      [] s \in {"Bitcoin", "bitcoin"} -> "BITCOIN"
      [] s \in {"Apple", "apple"} -> "APPLE"
      [] s \in {"Cash", "cash"} -> "CASH"
      [] s = "usd" -> "USD"
      [] s = "Cash Reserve" -> "CASH RESERVE"
      [] s = "ProShares" -> "PROSHARES"
      [] OTHER -> s

\* String.prototype.toLowerCase on the strings of the model.
ToLowerCase(s) ==
    CASE s = "BTC" -> "btc"
      [] s = "AAPL" -> "aapl"
      [] s = "ZZZZ" -> "zzzz"
      [] s = "USD" -> "usd"
      [] s \in {"Bitcoin", "BITCOIN"} -> "bitcoin"
      [] s \in {"Apple", "APPLE"} -> "apple"
      [] s \in {"Cash", "CASH"} -> "cash"
      [] s = "Cash Reserve" -> "cash reserve"
      [] s = "ProShares" -> "proshares"
      [] OTHER -> s

COINGECKO_MAP ==
    [t \in {"BTC", "ETH", "SOL", "USDT", "USDC", "BNB", "DOGE", "XRP", "ADA", "AVAX",
            "DOT", "LINK"} |->
        CASE t = "BTC" -> "bitcoin"
          [] t = "ETH" -> "ethereum"
          [] t = "SOL" -> "solana"
          [] t = "USDT" -> "tether"
          [] t = "USDC" -> "usd-coin"
          [] t = "BNB" -> "binancecoin"
          [] t = "DOGE" -> "dogecoin"
          [] t = "XRP" -> "ripple"
          [] t = "ADA" -> "cardano"
          [] t = "AVAX" -> "avalanche-2"
          [] t = "DOT" -> "polkadot"
          [] t = "LINK" -> "chainlink"]

\* The asset records passed to fetchMarketPrices: ticker "" is an asset without
\* a ticker.
PriceAssets ==
    { [ticker |-> "BTC",  name |-> "Bitcoin", type |-> "CRYPTO"],
      [ticker |-> "",     name |-> "Bitcoin", type |-> "CRYPTO"],
      [ticker |-> "AAPL", name |-> "Apple",   type |-> "STOCK"],
      [ticker |-> "ZZZZ", name |-> "AAPL",    type |-> "STOCK"],
      [ticker |-> "BTC",  name |-> "Apple",   type |-> "STOCK"],
      [ticker |-> "USD",  name |-> "Cash",    type |-> "CASH"] }

\* The lists of at most n records of the set S.
RECURSIVE ListsUpTo(_, _)
ListsUpTo(S, n) ==
    IF n = 0 THEN { << >> }
    ELSE LET shorter == ListsUpTo(S, n - 1)
         IN  shorter \cup { Append(l, x) : l \in { m \in shorter : Len(m) = n - 1 }, x \in S }

PriceInputs == ListsUpTo(PriceAssets, MaxAssets)

\* const ticker = asset.ticker?.toUpperCase() || asset.name.toUpperCase()
TickerOf(asset) ==
    IF ToUpperCase(asset.ticker) # "" THEN ToUpperCase(asset.ticker)
    ELSE ToUpperCase(asset.name)

\* const geckoId = COINGECKO_MAP[ticker] || asset.name.toLowerCase()
GeckoId(asset) ==
    IF TickerOf(asset) \in DOMAIN COINGECKO_MAP THEN COINGECKO_MAP[TickerOf(asset)]
    ELSE ToLowerCase(asset.name)

\* const key = asset.ticker || asset.name
PriceKey(asset) == IF asset.ticker # "" THEN asset.ticker ELSE asset.name

\* cryptoIds and stockTickers after the first loop over the assets.
CryptoIds(assets) ==
    { GeckoId(assets[i]) : i \in { j \in DOMAIN assets : assets[j].type = "CRYPTO" } }

StockTickers(assets) ==
    { TickerOf(assets[i]) : i \in { j \in DOMAIN assets : assets[j].type = "STOCK" } }

\* prices[key] = value
Put(prices, key, value) ==
    [k \in DOMAIN prices \cup {key} |-> IF k = key THEN value ELSE prices[k]]

NoPrices == << >>

-----------------------------------------------------------------------------
(* priceService: fetchMarketPrices *)

\* What the crypto request can end in: the fetch rejects, the response is not
\* OK, response.json() throws, the body is null, or the body is an object data.
CryptoFailures == {"neterr", "notok", "badjson", "nullbody"}

\* The entries of an OK body: an id without entry, an entry without usd, or an
\* entry with a usd value.
CryptoBodies ==
    { NoPrices } \cup { [id \in {"bitcoin"} |-> usd] : usd \in Numbers \cup {Undefined} }

CryptoResponses ==
    { [outcome |-> o, data |-> NoPrices] : o \in CryptoFailures }
        \cup { [outcome |-> "ok", data |-> d] : d \in CryptoBodies }

\* What the stock request can end in: no API key (Gemini variant), the request
\* rejects, the response is not OK (Yahoo variant), the text fails to parse, the
\* parsed body has no quoteResponse.result (Yahoo variant), or it lists quotes.
StockFailures == {"nokey", "neterr", "notok", "badjson", "noresult"}

\* One element of quoteResponse.result (an entry of stockData in the Gemini
\* variant, whose symbol is always defined).
Quotes ==
    { [symbol |-> sy, price |-> pr] :
        sy \in {"AAPL", "aapl", "BTC", Undefined}, pr \in {"175", Undefined} }

StockResponses ==
    { [outcome |-> o, result |-> << >>] : o \in StockFailures }
        \cup { [outcome |-> "quotes", result |-> r] : r \in ListsUpTo(Quotes, MaxQuotes) }

NoResponse == [outcome |-> "none"]

\* No call of fetchMarketPrices has been made.
NoFetch ==
    [stage |-> "idle", call |-> 0, assets |-> << >>, crypto |-> NoResponse,
     stock |-> NoResponse, pending |-> {}, prices |-> NoPrices, raised |-> FALSE,
     previous |-> NoPrices]

\* Mutant of CatchAndLog: the catch block throws the error again.
CatchAndRethrow(error) == TRUE

\* catch (error) { console.error(...) }: does the error reach the caller?
CatchAndLog(error) == FALSE

\* The errors thrown inside the try block of the crypto step.
CryptoThrows(response) == response.outcome \in {"neterr", "badjson", "nullbody"}

\* The forEach over the CRYPTO assets, from the record at index i on.
RECURSIVE CryptoMerge(_, _, _, _)
CryptoMerge(assets, data, prices, i) ==
    IF i > Len(assets) THEN prices
    ELSE LET asset == assets[i]
             geckoId == GeckoId(asset)
             hit == /\ asset.type = "CRYPTO"
                    /\ geckoId \in DOMAIN data
                    /\ TruthyValue(data[geckoId])
         IN  CryptoMerge(assets, data,
                         IF hit THEN Put(prices, PriceKey(asset), data[geckoId]) ELSE prices,
                         i + 1)

\* fetchMarketPrices up to the crypto request: fresh locals, the assets
\* separated by type.
FetchStart ==
    /\ priceFetch.stage = "idle"
    /\ \E assets \in PriceInputs :
          priceFetch' = [NoFetch EXCEPT !.stage = "crypto", !.call = 1, !.assets = assets]
    /\ UNCHANGED << appVars, journal, refresh >>

\* The crypto step: skipped without crypto ids; otherwise one request, whose
\* OK body is merged into prices. A second call gets the data of the first.
CryptoStep ==
    /\ priceFetch.stage = "crypto"
    /\ \E response \in
            IF CryptoIds(priceFetch.assets) = {} THEN {NoResponse}
            ELSE IF priceFetch.call = 1 THEN CryptoResponses
            ELSE {priceFetch.crypto} :
          priceFetch' =
             [priceFetch EXCEPT
                !.crypto = response,
                !.prices = IF response.outcome = "ok"
                           THEN CryptoMerge(priceFetch.assets, response.data, @, 1)
                           ELSE @,
                !.raised = IF response.outcome # "none" /\ CryptoThrows(response)
                           THEN CatchAndLog(response.outcome)
                           ELSE @,
                !.stage = IF response.outcome # "none" /\ CryptoThrows(response)
                             /\ CatchAndLog(response.outcome)
                          THEN "returned" ELSE "stock"]
    /\ UNCHANGED << appVars, journal, refresh >>

\* The errors thrown inside the try block of the stock step before the merge.
StockThrows(response) == response.outcome \in {"neterr", "badjson"}

\* The stock step up to the merge: skipped without stock tickers; otherwise one
\* request for all tickers.
StockRequestOf(responses) ==
    /\ priceFetch.stage = "stock"
    /\ \E response \in
            IF StockTickers(priceFetch.assets) = {} THEN {NoResponse}
            ELSE IF priceFetch.call = 1 THEN responses
            ELSE {priceFetch.stock} :
          priceFetch' =
             [priceFetch EXCEPT
                !.stock = response,
                !.pending = IF response.outcome = "quotes"
                            THEN DOMAIN response.result ELSE {},
                !.raised = IF response.outcome # "none" /\ StockThrows(response)
                           THEN CatchAndLog(response.outcome)
                           ELSE @,
                !.stage = IF response.outcome = "quotes" /\ response.result # << >>
                          THEN "merge" ELSE "returned"]
    /\ UNCHANGED << appVars, journal, refresh >>

StockRequest == StockRequestOf(StockResponses)

\* assets.find(a => a.ticker?.toUpperCase() === ticker.toUpperCase() ||
\*                  a.name.toUpperCase() === ticker.toUpperCase()): the indexes
\* of the records the predicate accepts.
Matches(assets, ticker) ==
    { i \in DOMAIN assets :
        \/ ToUpperCase(assets[i].ticker) = ToUpperCase(ticker)
        \/ ToUpperCase(assets[i].name) = ToUpperCase(ticker) }

Min(S) == CHOOSE x \in S : \A y \in S : x <= y

\* The key the merge writes the price of a returned ticker under.
MergeKey(assets, ticker) ==
    IF Matches(assets, ticker) # {}
    THEN PriceKey(assets[Min(Matches(assets, ticker))])
    ELSE ticker

\* Mutant of NextQuote: the quotes are merged as they arrive, in any order.
AnyQuote(pending) == pending

\* result.forEach(...): the quotes are merged in the order of the result.
NextQuote(pending) == { Min(pending) }

\* One iteration of the merge loop. A quote without symbol makes
\* ticker.toUpperCase() throw: the catch block of the stock step ends the loop.
StockQuote ==
    /\ priceFetch.stage = "merge"
    /\ \E i \in NextQuote(priceFetch.pending) :
          LET quote == priceFetch.stock.result[i]
              left == priceFetch.pending \ {i}
          IN  IF quote.symbol = Undefined
              THEN priceFetch' =
                      [priceFetch EXCEPT !.pending = {}, !.stage = "returned",
                                         !.raised = CatchAndLog("TypeError")]
              ELSE priceFetch' =
                      [priceFetch EXCEPT
                         !.prices = Put(@, MergeKey(priceFetch.assets, quote.symbol),
                                        NumberOf(quote.price)),
                         !.pending = left,
                         !.stage = IF left = {} THEN "returned" ELSE "merge"]
    /\ UNCHANGED << appVars, journal, refresh >>

\* Neither request of the call failed.
NoFailure(f) ==
    /\ f.crypto.outcome \in {"none", "ok"}
    /\ f.stock.outcome \in {"none", "quotes"}
    /\ f.stock.outcome = "quotes" =>
          \A i \in DOMAIN f.stock.result : f.stock.result[i].symbol # Undefined

\* The caller invokes fetchMarketPrices again on the same list after a call in
\* which nothing failed, while the sources hold the same data.
FetchAgain ==
    /\ priceFetch.stage = "returned"
    /\ priceFetch.call = 1
    /\ ~priceFetch.raised
    /\ NoFailure(priceFetch)
    /\ priceFetch' =
          [priceFetch EXCEPT !.stage = "crypto", !.call = 2, !.prices = NoPrices,
                             !.pending = {}, !.previous = priceFetch.prices]
    /\ UNCHANGED << appVars, journal, refresh >>

NextPrices == FetchStart \/ CryptoStep \/ StockRequest \/ StockQuote \/ FetchAgain

-----------------------------------------------------------------------------
(* AssetDashboard: handleUpdatePrices *)

\* The ticker, name and type of the asset with the given id: the three seeded
\* assets, and the stock the form of the model creates (the form edits of the
\* model change currentPrice, the val of an asset record, only).
AssetInfo(id) ==
    CASE id = 1 -> [ticker |-> "AAPL", name |-> "Apple", type |-> "STOCK"]
      [] id = 2 -> [ticker |-> "BTC", name |-> "Bitcoin", type |-> "CRYPTO"]
      [] id = 3 -> [ticker |-> "USD", name |-> "Cash Reserve", type |-> "CASH"]
      [] OTHER -> [ticker |-> "USD", name |-> "ProShares", type |-> "STOCK"]

\* The argument of fetchMarketPrices(assets).
AssetsOf(list) == [i \in DOMAIN list |-> AssetInfo(list[i].id)]

\* Object.keys(prices).find(k => k.toLowerCase() === key.toLowerCase()): the
\* keys the predicate accepts (at most one for the assets of the model).
MatchedKeys(prices, asset) ==
    { k \in DOMAIN prices : ToLowerCase(k) = ToLowerCase(PriceKey(asset)) }

\* Mutant of ApplyPrices: an asset without a returned price is given price 0.
ApplyPricesOrZero(prices, list) ==
    [i \in DOMAIN list |->
        LET keys == MatchedKeys(prices, AssetInfo(list[i].id))
        IN  IF keys # {} /\ TruthyValue(prices[CHOOSE k \in keys : TRUE])
            THEN [list[i] EXCEPT !.val = prices[CHOOSE k \in keys : TRUE]]
            ELSE [list[i] EXCEPT !.val = "0"]]

\* prev.map(asset => matchedKey && prices[matchedKey]
\*                      ? {...asset, currentPrice: prices[matchedKey], lastUpdated} : asset)
ApplyPrices(prices, list) ==
    [i \in DOMAIN list |->
        LET keys == MatchedKeys(prices, AssetInfo(list[i].id))
        IN  IF keys # {} /\ TruthyValue(prices[CHOOSE k \in keys : TRUE])
            THEN [list[i] EXCEPT !.val = prices[CHOOSE k \in keys : TRUE]]
            ELSE list[i]]

NoRefresh == [active |-> FALSE, closure |-> << >>]

\* What the stock request of a refresh can end in: the symbols of the quotes
\* are the tickers the dashboard's stocks have.
RefreshQuotes ==
    { [symbol |-> sy, price |-> pr] :
        sy \in {"AAPL", "USD"}, pr \in {"175", Undefined} }

RefreshStockResponses ==
    { [outcome |-> o, result |-> << >>] : o \in StockFailures }
        \cup { [outcome |-> "quotes", result |-> r] : r \in ListsUpTo(RefreshQuotes, RefreshMaxQuotes) }

RefreshStockRequest == StockRequestOf(RefreshStockResponses)

\* handleUpdatePrices up to its await: the button is enabled while loading is
\* false; the handler keeps the assets and the setAssets of this render.
RefreshStart ==
    /\ route = "/"
    /\ ~refresh.active
    /\ priceFetch.stage = "idle"
    /\ crudLeft > 0
    /\ refresh' = [active |-> TRUE, closure |-> mem[AssetsKey]]
    /\ priceFetch' = [NoFetch EXCEPT !.stage = "crypto", !.call = 1,
                                      !.assets = AssetsOf(mem[AssetsKey])]
    /\ crudLeft' = crudLeft - 1
    /\ UNCHANGED << mem, syncConfig, localStorage, route, editingId, syncStatus, syncMessage,
                    showSyncSettings, inflight, timers, gists, now, requestsLeft,
                    writeFailuresLeft, last, journal >>

\* handleUpdatePrices after its await: setAssets(prev => prev.map(...)), or the
\* alert of the catch block when fetchMarketPrices raised; then setLoading(false).
RefreshDone ==
    /\ refresh.active
    /\ priceFetch.stage = "returned"
    /\ IF priceFetch.raised
       THEN UNCHANGED << mem, localStorage, writeFailuresLeft >>
       ELSE \E ok \in WriteOutcomes :
               SetValue(AssetsKey,
                        ApplyPrices(priceFetch.prices,
                                    HookPrev(refresh.closure, mem[AssetsKey])),
                        ok)
    /\ refresh' = NoRefresh
    /\ priceFetch' = NoFetch
    /\ UNCHANGED << syncConfig, route, editingId, syncStatus, syncMessage,
                    showSyncSettings, inflight, timers, gists, now, crudLeft,
                    requestsLeft, last, journal >>

-----------------------------------------------------------------------------
(* OptionsJournal: calculateROI and renderDistanceToStrike *)

RECURSIVE GCD(_, _)
GCD(a, b) == IF b = 0 THEN a ELSE GCD(b, a % b)

Abs(n) == IF n < 0 THEN -n ELSE n

\* A JavaScript number: the fraction num / den in lowest terms with den > 0,
\* NaN, or an infinity; and the value undefined of a field that is not set.
Ratio(n, d) ==
    LET g == GCD(Abs(n), Abs(d))
        sign == IF d < 0 THEN -1 ELSE 1
    IN  [kind |-> "number", num |-> sign * (n \div g), den |-> sign * (d \div g)]

Num(n) == [kind |-> "number", num |-> n, den |-> 1]

NotANumber == [kind |-> "NaN", num |-> 0, den |-> 1]

Infinite == [kind |-> "Infinity", num |-> 0, den |-> 1]

Unset == [kind |-> "undefined", num |-> 0, den |-> 1]

\* !x
Falsy(x) == x.kind \in {"NaN", "undefined"} \/ (x.kind = "number" /\ x.num = 0)

\* a - b
Minus(a, b) ==
    IF a.kind = "number" /\ b.kind = "number"
    THEN Ratio(a.num * b.den - b.num * a.den, a.den * b.den)
    ELSE IF a.kind = "Infinity" /\ b.kind = "number" THEN Infinite
    ELSE NotANumber

\* a / b
DividedBy(a, b) ==
    IF a.kind = "number" /\ b.kind = "number"
    THEN IF b.num # 0 THEN Ratio(a.num * b.den, a.den * b.num)
         ELSE IF a.num = 0 THEN NotANumber ELSE Infinite
    ELSE IF a.kind = "Infinity" /\ b.kind = "number" THEN Infinite
    ELSE NotANumber

\* a * b
Times(a, b) ==
    IF a.kind = "number" /\ b.kind = "number"
    THEN Ratio(a.num * b.num, a.den * b.den)
    ELSE IF a.kind = "Infinity" /\ b.kind = "number" /\ b.num # 0 THEN Infinite
    ELSE NotANumber

\* a > b
GreaterThan(a, b) ==
    a.kind = "number" /\ b.kind = "number" /\ a.num * b.den > b.num * a.den

\* The trades a row of the journal can show.
Trades ==
    [type : {"SHORT_PUT", "LONG_CALL"},
     status : {"OPEN", "CLOSED", "EXPIRED"},
     premium : {Num(0), Num(300), Num(500), NotANumber},
     collateralOrCost : {Num(0), Num(10000), NotANumber},
     closePrice : {Unset, Num(0), Num(450)},
     strikePrice : {Num(100), Num(110)}]

\* prices[trade.ticker]: no entry, or the value of the entry.
MarketPrices == {Unset, NotANumber, Num(0), Num(90), Num(100), Num(110)}

\* Mutant of ShortPutROI: the quotient is taken the other way round.
ShortPutROIInverted(trade) ==
    Times(DividedBy(trade.collateralOrCost, trade.premium), Num(100))

\* (trade.premium / trade.collateralOrCost) * 100
ShortPutROI(trade) ==
    Times(DividedBy(trade.premium, trade.collateralOrCost), Num(100))

\* const profit = trade.closePrice - trade.premium;
\* return (profit / trade.premium) * 100
LongCallROI(trade) ==
    Times(DividedBy(Minus(trade.closePrice, trade.premium), trade.premium), Num(100))

calculateROI(trade) ==
    IF Falsy(trade.premium) \/ Falsy(trade.collateralOrCost) THEN Num(0)
    ELSE IF trade.type = "SHORT_PUT" THEN ShortPutROI(trade)
    ELSE IF trade.status = "CLOSED" /\ trade.closePrice # Unset THEN LongCallROI(trade)
    ELSE Num(0)

\* isSafe of a SHORT_PUT: currentPrice > trade.strikePrice
ShortPutSafe(currentPrice, strikePrice) == GreaterThan(currentPrice, strikePrice)

\* Mutant of LongCallSafe: the comparison is turned round for the call.
LongCallSafeBelow(currentPrice, strikePrice) == GreaterThan(strikePrice, currentPrice)

\* isSafe of a LONG_CALL: currentPrice > trade.strikePrice
LongCallSafe(currentPrice, strikePrice) == GreaterThan(currentPrice, strikePrice)

\* The labels of the cell: "OTM" is the text with (OTM), "ITM" the text with (ITM).
renderDistanceToStrike(trade, currentPrice) ==
    IF Falsy(currentPrice) \/ trade.status # "OPEN"
    THEN [shown |-> FALSE, isSafe |-> FALSE, label |-> "-"]
    ELSE IF trade.type = "SHORT_PUT"
    THEN LET isSafe == ShortPutSafe(currentPrice, trade.strikePrice)
         IN  [shown |-> TRUE, isSafe |-> isSafe, label |-> IF isSafe THEN "OTM" ELSE "ITM"]
    ELSE LET isSafe == LongCallSafe(currentPrice, trade.strikePrice)
         IN  [shown |-> TRUE, isSafe |-> isSafe, label |-> IF isSafe THEN "ITM" ELSE "OTM"]

\* No row has been rendered.
NoRow == [rendered |-> FALSE]

\* One row of the table is rendered: its ROI cell and its distance cell.
RenderRow ==
    /\ ~journal.rendered
    /\ \E trade \in Trades : \E currentPrice \in MarketPrices :
          journal' = [rendered |-> TRUE, trade |-> trade, currentPrice |-> currentPrice,
                      roi |-> calculateROI(trade),
                      distance |-> renderDistanceToStrike(trade, currentPrice)]
    /\ UNCHANGED << appVars, priceFetch, refresh >>

-----------------------------------------------------------------------------
(* The state machine *)

TypeOK ==
    /\ syncStatus \in {"idle", "loading", "success", "error"}
    /\ route \in Routes \cup {NotMounted}
    /\ showSyncSettings \in BOOLEAN
    /\ timers \in Nat
    /\ syncConfig.githubToken \in Tokens
    /\ syncConfig.gistId \in GistIds \cup {0}

\* The state after the first render: every hook loads its key from the store.
\* configItem is what an earlier session left under the sync configuration key.
InitState(configItem, crud, requests, failures) ==
    /\ localStorage =
          [k \in CollKeys \cup {SyncConfigKey} |-> IF k = SyncConfigKey THEN configItem ELSE NoItem]
    /\ mem = [k \in CollKeys |-> LoadValue(localStorage, k, InitialValue(k))]
    /\ syncConfig = LoadValue(localStorage, SyncConfigKey, InitialSyncConfig)
    /\ route = "/"
    /\ editingId = 0
    /\ syncStatus = "idle"
    /\ syncMessage = ""
    /\ showSyncSettings = FALSE
    /\ inflight = {}
    /\ timers = 0
    /\ gists = [g \in GistIds |-> NoGist]
    /\ now = FirstNow
    /\ crudLeft = crud
    /\ requestsLeft = requests
    /\ writeFailuresLeft = failures
    /\ last = "init"
    /\ priceFetch = NoFetch
    /\ journal = NoRow
    /\ refresh = NoRefresh

\* An earlier session configured the backup and touched no collection.
ConfiguredItem == TextOf([githubToken |-> "ghp_token", gistId |-> 1, lastSyncTime |-> 0])

\* The settings panel and the two sync handlers with their continuations.
NextCloudSync ==
    \/ ToggleSyncSettings
    \/ EditSyncConfig
    \/ UploadRejected
    \/ UploadStart
    \/ UploadFailed
    \/ UploadSucceeded
    \/ DownloadRejected
    \/ DownloadStart
    \/ DownloadFailed
    \/ DownloadSucceeded
    \/ TimerFires

\* The record views.
NextViews ==
    \/ SaveRecord
    \/ EditRecord
    \/ CancelEdit
    \/ DeleteRecord
    \/ DeleteDeclined
    \/ Navigate

\* The whole application, first launch.
Init == InitState(NoItem, StoreCrudBudget, StoreRequestBudget, 0)

Next == NextViews \/ NextCloudSync \/ Tick

Spec == Init /\ [][Next]_vars

\* Cloud sync alone, first launch.
InitSync == InitState(NoItem, 0, SyncRequestBudget, 0)

SyncSpec == InitSync /\ [][NextCloudSync]_vars

\* Cloud sync alone, with a larger budget of sync operations.
InitRace == InitState(NoItem, 0, RaceRequestBudget, 0)

RaceSpec == InitRace /\ [][NextCloudSync]_vars

\* Cloud sync while the user saves records in the asset view.
InitBackup == InitState(NoItem, BackupCrudBudget, BackupRequestBudget, 0)

NextBackup == SaveRecord \/ NextCloudSync

BackupSpec == InitBackup /\ [][NextBackup]_vars

\* The record views alone.
InitCrud == InitState(NoItem, CrudBudget, 0, 0)

NextCrud == NextViews \/ Tick

CrudSpec == InitCrud /\ [][NextCrud]_vars

\* The record views and restore by download, over a store whose writes can fail.
InitStore == InitState(ConfiguredItem, StoreCrudBudget, StoreRequestBudget, StoreWriteFailures)

NextStore ==
    \/ NextViews
    \/ DownloadStart
    \/ DownloadFailed
    \/ DownloadSucceeded
    \/ TimerFires

StoreSpec == InitStore /\ [][NextStore]_vars

\* Every network call settles: the continuation of a suspended handler runs.
FairSyncSpec ==
    SyncSpec /\ WF_vars(UploadFailed \/ UploadSucceeded \/ DownloadFailed \/ DownloadSucceeded)

\* A closed trade with a closePrice, as a backup made elsewhere has it.
ClosedTrade == [id |-> 1, val |-> "50", closePrice |-> "450"]

\* What an earlier session, or anything else writing to the store, can have left
\* under a collection key.
StoredItems(k) ==
    {NoItem, CorruptItem} \cup (IF k = TradesKey THEN {TextOf(<< ClosedTrade >>)} ELSE {})

\* The application from before its first render, over the stores it can find.
InitLoad ==
    /\ localStorage \in
          { ls \in [CollKeys \cup {SyncConfigKey} -> StoredItems(TradesKey)] :
               \A k \in DOMAIN ls : ls[k] \in StoredItems(k) }
    /\ mem = [k \in CollKeys |-> << >>]
    /\ syncConfig = InitialSyncConfig
    /\ route = NotMounted
    /\ editingId = 0
    /\ syncStatus = "idle"
    /\ syncMessage = ""
    /\ showSyncSettings = FALSE
    /\ inflight = {}
    /\ timers = 0
    /\ gists = [g \in GistIds |-> NoGist]
    /\ now = FirstNow
    /\ crudLeft = LoadCrudBudget
    /\ requestsLeft = 0
    /\ writeFailuresLeft = 0
    /\ last = "init"
    /\ priceFetch = NoFetch
    /\ journal = NoRow
    /\ refresh = NoRefresh

NextLoad == Mount \/ NextViews \/ Tick

LoadSpec == InitLoad /\ [][NextLoad]_vars

\* The asset dashboard, mounted throughout: its refresh button and its form.
InitRefresh == InitState(NoItem, RefreshCrudBudget, 0, 0)

NextRefresh ==
    \/ RefreshStart
    \/ CryptoStep
    \/ RefreshStockRequest
    \/ StockQuote
    \/ RefreshDone
    \/ SaveRecord
    \/ EditRecord
    \/ CancelEdit
    \/ DeleteRecord
    \/ DeleteDeclined

RefreshSpec == InitRefresh /\ [][NextRefresh]_vars

\* fetchMarketPrices, called once or twice on one list.
InitPrices == InitState(NoItem, 0, 0, 0)

PriceSpec == InitPrices /\ [][NextPrices]_vars

\* The rows of the options journal.
InitJournal == InitState(NoItem, 0, 0, 0)

NextJournal == RenderRow

JournalSpec == InitJournal /\ [][NextJournal]_vars

-----------------------------------------------------------------------------
(* Properties *)

NotFoundMessage == "Gist ID not found. Clear ID to create new."

\* C1: when an upload succeeds while no remote document id is stored, the id
\* returned by the create request is held in the sync configuration, in memory
\* and in the persistent store, once the upload handler has finished.
C1_CreatedIdRemembered ==
    [][\A op \in inflight : \A g \in GistIds :
          (UploadStored(op, g) /\ op.cfg.gistId = 0 /\ syncConfig.gistId = 0)
              => /\ syncConfig'.gistId = g
                 /\ localStorage'[SyncConfigKey] # NoItem
                 /\ localStorage'[SyncConfigKey].v.gistId = g]_vars

\* C2: after any sequence of create, update and delete operations, no two
\* records of a collection have the same id.
C2_NoDuplicateIds ==
    \A k \in CollKeys : \A i, j \in DOMAIN mem[k] :
        i # j => mem[k][i].id # mem[k][j].id

\* The store holds under key k the serialization of the in-memory collection.
Persisted(k) == localStorage[k] = Stringify(k, mem[k])

\* C3 as stated: after every completed create, update, delete or restore
\* operation on a collection, the in-memory value of that collection equals the
\* value last written under its key in the store.
C3_MemoryEqualsStore ==
    [][/\ (SaveRecord \/ DeleteRecord) => Persisted(KeyOf(route))'
       /\ \A op \in inflight : \A content \in DownloadContents(op) :
             DownloadRestore(op, content)
                 => \A k \in RestoredKeys(content) : Persisted(k)']_vars

\* C3 as amended: the same, for the operations during which no write to the
\* store failed.
C3_MemoryEqualsStoreUnlessWriteFails ==
    [][/\ ((SaveRecord \/ DeleteRecord) /\ writeFailuresLeft' = writeFailuresLeft)
             => Persisted(KeyOf(route))'
       /\ \A op \in inflight : \A content \in DownloadContents(op) :
             (DownloadRestore(op, content) /\ writeFailuresLeft' = writeFailuresLeft)
                 => \A k \in RestoredKeys(content) : Persisted(k)']_vars

\* A record operation and a restore have both written, and each collection they
\* wrote is persisted as it is in memory.
C3_Witness ==
    /\ crudLeft < StoreCrudBudget
    /\ last = "downloadOk"
    /\ writeFailuresLeft = StoreWriteFailures
    /\ \E k \in CollKeys : mem[k] # << >> /\ localStorage[k] # NoItem /\ Persisted(k)
    /\ \E k \in CollKeys : mem[k] = << >> /\ localStorage[k] # NoItem /\ Persisted(k)

\* C4: at most one sync operation (upload or download) is in flight at any time.
C4_AtMostOneInFlight == Cardinality(inflight) <= 1

\* C5: on a successful download, every collection whose key is absent from the
\* payload is left unchanged, in memory and in the store.
C5_AbsentKeysUntouched ==
    [][\A op \in inflight : \A content \in DownloadContents(op) :
          DownloadRestore(op, content)
              => \A k \in CollKeys :
                    content.payload[k] = AbsentSlot
                        => mem'[k] = mem[k] /\ localStorage'[k] = localStorage[k]]_vars

\* A restore emptied the airdrops from a payload without the assets key, and
\* the seeded assets are still there.
C5_Witness ==
    /\ last = "downloadOk"
    /\ mem[AirdropsKey] = << >>
    /\ mem[AssetsKey] = SeedAssets
    /\ localStorage[AssetsKey] = NoItem

\* C6: on a successful download, every collection whose key is present in the
\* payload is replaced by the payload's value for that key, whatever the
\* truthiness of the value.
C6_PresentKeysReplaced ==
    [][\A op \in inflight : \A content \in DownloadContents(op) :
          DownloadRestore(op, content)
              => \A k \in CollKeys :
                    content.payload[k] # AbsentSlot
                        => ListSlot(mem'[k]) = content.payload[k]]_vars

\* C7: downloading the document an upload of the present dataset wrote leaves
\* each of the four collections as it is.
C7_RoundTrip ==
    [][\A op \in inflight : \A g \in GistIds :
          (/\ g = op.cfg.gistId
           /\ gists[g] # NoGist
           /\ gists[g].payload = FileContent(mem, now).payload
           /\ DownloadRestore(op, gists[g]))
              => mem' = mem]_vars

\* C8: an upload started with an empty token, and a download started with an
\* empty token or an empty document id, issue no request, never set the status
\* to in-progress and leave the collections and the stored configuration as
\* they are.
C8_RejectedLeavesAllUnchanged ==
    [][(\/ (UploadRejected \/ UploadStart) /\ syncConfig.githubToken = ""
        \/ (DownloadRejected \/ DownloadStart)
              /\ (syncConfig.githubToken = "" \/ syncConfig.gistId = 0))
          => /\ syncStatus' # "loading"
             /\ UNCHANGED << inflight, requestsLeft, gists, mem, syncConfig, localStorage >>]_vars

\* A download was rejected for its missing document id, with a token set.
C8_Witness ==
    /\ last = "downloadRejected"
    /\ syncConfig.githubToken # ""
    /\ syncConfig.gistId = 0
    /\ showSyncSettings
    /\ requestsLeft = SyncRequestBudget

\* C9: an upload to a stored document id answered with 404 ends in the failure
\* state with a message distinct from the generic upload error, issues no
\* create request and leaves the stored document id unchanged.
C9_NotFoundIsDistinct ==
    [][\A op \in inflight :
          (UploadFailedWith(op, "404") /\ op.cfg.gistId # 0)
              => /\ syncStatus' = "error"
                 /\ syncMessage' = NotFoundMessage
                 /\ syncMessage' # UploadErrorMessage("500", op.cfg)
                 /\ inflight' = inflight \ {op}
                 /\ UNCHANGED << gists, requestsLeft, syncConfig, localStorage >>]_vars

\* An update of a stored id was answered with 404; the id is still stored.
C9_Witness ==
    /\ last = "upload404"
    /\ syncStatus = "error"
    /\ syncMessage = NotFoundMessage
    /\ syncConfig.gistId # 0
    /\ inflight = {}

\* C10: an operation that passes its precondition sets the status to
\* in-progress; when its network call settles it ends with success or failure;
\* the status does not stay in-progress forever.
C10_StartedOperationsEnd ==
    /\ [][(UploadStart \/ DownloadStart) => syncStatus' = "loading"]_vars
    /\ [][(UploadFailed \/ UploadSucceeded \/ DownloadFailed \/ DownloadSucceeded)
             => syncStatus' \in {"success", "error"}]_vars
    /\ (syncStatus = "loading") ~> (syncStatus # "loading")

\* Both operations of the budget were started and have ended, one in each way.
C10_Witness ==
    /\ requestsLeft = 0
    /\ inflight = {}
    /\ last = "downloadError"
    /\ syncStatus = "error"
    /\ gists # [g \in GistIds |-> NoGist]

\* C11: a download that fails changes none of the four collections, in memory
\* or in the store, and ends with the status 'error'.
C11_FailedDownloadChangesNothing ==
    [][DownloadFailed =>
          /\ mem' = mem
          /\ \A k \in CollKeys : localStorage'[k] = localStorage[k]
          /\ syncStatus' = "error"]_vars

\* A download failed after an upload had stored a document.
C11_Witness ==
    /\ last = "downloadError"
    /\ syncStatus = "error"
    /\ gists # [g \in GistIds |-> NoGist]
    /\ inflight = {}

\* C12: fetchMarketPrices never raises to its caller, whatever the list and
\* whatever the two requests end in: no error leaves a try block, and what it
\* returns is a mapping from keys to values.
C12_NeverRaises ==
    /\ ~priceFetch.raised
    /\ priceFetch.stage = "returned" =>
          priceFetch.prices \in [DOMAIN priceFetch.prices -> Numbers \cup {NaN}]

\* A call returned a partial mapping: the crypto body was null and the merge of
\* the stock quotes was cut short by a quote without symbol.
C12_Witness ==
    /\ priceFetch.stage = "returned"
    /\ priceFetch.crypto.outcome = "nullbody"
    /\ priceFetch.stock.outcome = "quotes"
    /\ \E i \in DOMAIN priceFetch.stock.result : priceFetch.stock.result[i].symbol = Undefined
    /\ priceFetch.prices # NoPrices

\* C13: every value of the returned mapping is a positive number.
C13_AllPricesPositive ==
    priceFetch.stage = "returned" =>
        \A k \in DOMAIN priceFetch.prices : priceFetch.prices[k] \in PositiveNumbers

\* The stock source returned a positive price for the ticker.
QuoteSucceeded(response, ticker) ==
    \E i \in DOMAIN response.result :
        /\ response.result[i].symbol # Undefined
        /\ ToUpperCase(response.result[i].symbol) = ticker
        /\ response.result[i].price \in PositiveNumbers

\* C14: when the stock source fails for exactly one stock ticker of the list and
\* succeeds for the others, the mapping holds a positive price for every
\* STOCK record whose ticker succeeded, no entry for the record whose ticker
\* failed, and the call does not raise.
C14_StockFailuresIsolated ==
    LET f == priceFetch
        tickers == StockTickers(f.assets)
        failed == { t \in tickers : ~QuoteSucceeded(f.stock, t) }
        stocks == { i \in DOMAIN f.assets : f.assets[i].type = "STOCK" }
    IN  ( /\ f.stage = "returned"
          /\ f.stock.outcome = "quotes"
          /\ Cardinality(failed) = 1
          /\ Cardinality(tickers) > 1 )
        => /\ ~f.raised
           /\ \A i \in stocks :
                 IF TickerOf(f.assets[i]) \in failed
                 THEN PriceKey(f.assets[i]) \notin DOMAIN f.prices
                 ELSE /\ PriceKey(f.assets[i]) \in DOMAIN f.prices
                      /\ f.prices[PriceKey(f.assets[i])] \in PositiveNumbers

\* C15: after a successful crypto response, every CRYPTO record whose canonical
\* id has a non-zero usd price in the response has that price in the returned
\* mapping, under its ticker as provided (its name when it has no ticker).
C15_CryptoPricesAttributed ==
    LET f == priceFetch
    IN  (f.stage = "returned" /\ f.crypto.outcome = "ok") =>
           \A i \in DOMAIN f.assets :
              ( /\ f.assets[i].type = "CRYPTO"
                /\ GeckoId(f.assets[i]) \in DOMAIN f.crypto.data
                /\ f.crypto.data[GeckoId(f.assets[i])] \in Numbers \ {"0"} )
              => /\ PriceKey(f.assets[i]) \in DOMAIN f.prices
                 /\ f.prices[PriceKey(f.assets[i])] = f.crypto.data[GeckoId(f.assets[i])]

\* The keys the documented precedence allows for a returned ticker: the key of a
\* record matching by ticker; if there is none, of a record matching by name;
\* if there is none, the returned ticker itself.
PrecedenceKeys(assets, ticker) ==
    LET byTicker == { i \in DOMAIN assets :
                        ToUpperCase(assets[i].ticker) = ToUpperCase(ticker) }
        byName == { i \in DOMAIN assets :
                        ToUpperCase(assets[i].name) = ToUpperCase(ticker) }
    IN  IF byTicker # {} THEN { PriceKey(assets[i]) : i \in byTicker }
        ELSE IF byName # {} THEN { PriceKey(assets[i]) : i \in byName }
        ELSE { ticker }

\* C16: the merge of a returned stock price writes it under the key of a record
\* matching by ticker, else of a record matching by name, else under the
\* returned ticker; a ticker match wins whatever the order of the list.
C16_MergePrecedence ==
    [][(StockQuote /\ priceFetch.stock.result[Min(priceFetch.pending)].symbol # Undefined) =>
          LET quote == priceFetch.stock.result[Min(priceFetch.pending)]
          IN  \E key \in PrecedenceKeys(priceFetch.assets, quote.symbol) :
                 priceFetch'.prices = Put(priceFetch.prices, key, NumberOf(quote.price))]_vars

NonZeroNumber(x) == x.kind = "number" /\ x.num # 0

\* C18: for a SHORT_PUT whose premium and collateralOrCost are numbers other than
\* zero, calculateROI returns premium / collateralOrCost x 100.
C18_ShortPutROI ==
    ( /\ journal.rendered
      /\ journal.trade.type = "SHORT_PUT"
      /\ NonZeroNumber(journal.trade.premium)
      /\ NonZeroNumber(journal.trade.collateralOrCost) )
    => LET premium == journal.trade.premium
           collateral == journal.trade.collateralOrCost
       IN  /\ journal.roi.kind = "number"
           /\ journal.roi.num * premium.den * collateral.num
                 = premium.num * collateral.den * 100 * journal.roi.den

\* The SHORT_PUT with premium 500 and collateral 10000 shows an ROI of 5.
C18_Witness ==
    /\ journal.rendered
    /\ journal.trade.type = "SHORT_PUT"
    /\ journal.trade.premium = Num(500)
    /\ journal.trade.collateralOrCost = Num(10000)
    /\ journal.roi = Num(5)

\* C19: for a LONG_CALL, calculateROI returns (closePrice - premium) / premium
\* x 100 when the trade is CLOSED and has a close price, and 0 otherwise,
\* whatever collateralOrCost is.
C19_LongCallROI ==
    (journal.rendered /\ journal.trade.type = "LONG_CALL")
    => journal.roi =
          IF journal.trade.status = "CLOSED" /\ journal.trade.closePrice # Unset
          THEN Times(DividedBy(Minus(journal.trade.closePrice, journal.trade.premium),
                               journal.trade.premium), Num(100))
          ELSE Num(0)

\* C20: for an OPEN trade with a known market price, isSafe is market price >
\* strike for both types; a SHORT_PUT is labeled OTM when it holds and ITM
\* otherwise, a LONG_CALL ITM when it holds and OTM otherwise.
C20_DistanceLabels ==
    ( /\ journal.rendered
      /\ journal.trade.status = "OPEN"
      /\ NonZeroNumber(journal.currentPrice) )
    => LET above == journal.currentPrice.num * journal.trade.strikePrice.den
                       > journal.trade.strikePrice.num * journal.currentPrice.den
       IN  /\ journal.distance.shown
           /\ journal.distance.isSafe = above
           /\ journal.trade.type = "SHORT_PUT" =>
                 journal.distance.label = IF above THEN "OTM" ELSE "ITM"
           /\ journal.trade.type = "LONG_CALL" =>
                 journal.distance.label = IF above THEN "ITM" ELSE "OTM"

\* The LONG_CALL with market price 110 and strike 100 is labeled ITM and marked
\* favourable.
C20_Witness ==
    /\ journal.rendered
    /\ journal.trade.type = "LONG_CALL"
    /\ journal.trade.status = "OPEN"
    /\ journal.currentPrice = Num(110)
    /\ journal.trade.strikePrice = Num(100)
    /\ journal.distance = [shown |-> TRUE, isSafe |-> TRUE, label |-> "ITM"]

\* C21: a save in edit mode changes only the records whose id is the id being
\* edited: the number of records, their order, every id and every other record
\* stay as they were.
C21_UpdateTouchesOnlyEdited ==
    [][(SaveRecord /\ editingId # 0) =>
          LET before == mem[KeyOf(route)]
              after == mem'[KeyOf(route)]
          IN  /\ Len(after) = Len(before)
              /\ \A i \in DOMAIN before :
                    /\ after[i].id = before[i].id
                    /\ before[i].id # editingId => after[i] = before[i]]_vars

\* The second seeded asset was edited and saved; the other two are as seeded.
C21_Witness ==
    /\ editingId = 0
    /\ Len(mem[AssetsKey]) = 3
    /\ mem[AssetsKey][1] = SeedAssets[1]
    /\ mem[AssetsKey][2] = [id |-> 2, val |-> "100"]
    /\ mem[AssetsKey][3] = SeedAssets[3]

\* C22: a declined delete changes neither the collection, nor its stored item,
\* nor the edit form; a confirmed delete removes exactly the records with the
\* given id, keeps the others in their order, and closes the form only when it
\* was editing that id.
C22_DeleteExact ==
    [][/\ DeleteDeclined =>
             /\ mem' = mem
             /\ localStorage' = localStorage
             /\ editingId' = editingId
       /\ DeleteRecord =>
             \E i \in DOMAIN mem[KeyOf(route)] :
                LET id == mem[KeyOf(route)][i].id
                IN  /\ mem'[KeyOf(route)] =
                          SelectSeq(mem[KeyOf(route)], LAMBDA a : a.id # id)
                    /\ \A k \in CollKeys \ {KeyOf(route)} : mem'[k] = mem[k]
                    /\ editingId' = IF editingId = id THEN 0 ELSE editingId]_vars

\* One delete of the second asset was declined and one was confirmed: the first
\* left the store without item, the second removed the record.
C22_Witness ==
    /\ crudLeft = CrudBudget - 2
    /\ mem[AssetsKey] = << SeedAssets[1], SeedAssets[3] >>
    /\ localStorage[AssetsKey] = Stringify(AssetsKey, mem[AssetsKey])
    /\ \A k \in CollKeys \ {AssetsKey} :
          mem[k] = InitialValue(k) /\ localStorage[k] = NoItem

\* C23: loading a key that is missing from the store, or whose text does not
\* parse, gives the default in memory and writes nothing; afterwards the item of
\* a key changes only when a save of that key's collection writes it.
C23_LoadWritesNothing ==
    [][/\ Mount =>
             /\ localStorage' = localStorage
             /\ \A k \in CollKeys :
                   localStorage[k] \in {NoItem, CorruptItem} => mem'[k] = InitialValue(k)
             /\ localStorage[SyncConfigKey] \in {NoItem, CorruptItem}
                   => syncConfig' = InitialSyncConfig
       /\ \A k \in CollKeys :
             localStorage'[k] # localStorage[k] =>
                /\ SaveRecord \/ DeleteRecord
                /\ k = KeyOf(route)
                /\ localStorage'[k] = Stringify(k, mem'[k])]_vars

\* The assets key held unparsable text and the airdrops key was missing: the
\* views show the defaults, a trade has been saved, and both keys are as found.
C23_Witness ==
    /\ route \in Routes
    /\ crudLeft < LoadCrudBudget
    /\ localStorage[TradesKey].t = "text"
    /\ localStorage[AssetsKey] = CorruptItem
    /\ localStorage[AirdropsKey] = NoItem
    /\ mem[AssetsKey] = SeedAssets
    /\ mem[AirdropsKey] = SeedAirdrops

\* C24: when the write to the store fails during a save, the handler that
\* called setValue still runs to its end, the collection in memory holds the
\* new value, and the store keeps the item it had.
C24_WriteFailureSwallowed ==
    [][writeFailuresLeft' < writeFailuresLeft =>
          LET key == KeyOf(route)
              list == mem[key]
          IN  /\ SaveRecord =>
                    /\ localStorage' = localStorage
                    /\ \E val \in FormVals(route) :
                          mem'[key] = IF editingId # 0
                                      THEN UpdatedList(list, editingId, val)
                                      ELSE CreatedList(route, list, [id |-> NewId, val |-> val])
                    /\ editingId' = 0
              /\ DeleteRecord =>
                    /\ localStorage' = localStorage
                    /\ \E i \in DOMAIN list :
                          /\ mem'[key] = FilteredList(list, list[i].id)
                          /\ editingId' = IF editingId = list[i].id THEN 0 ELSE editingId
              /\ \A op \in inflight : \A content \in DownloadContents(op) :
                    DownloadRestore(op, content) =>
                       /\ mem' = MemAfterRestore(content)
                       /\ syncStatus' = "success"
                       /\ \E k \in RestoredKeys(content) \cup {SyncConfigKey} :
                             localStorage'[k] = localStorage[k]]_vars

\* A fourth asset was created while the store refused the write: the view
\* lists it, the form is reset, and the assets key is still absent.
C24_Witness ==
    /\ writeFailuresLeft < StoreWriteFailures
    /\ Len(mem[AssetsKey]) = Len(SeedAssets) + 1
    /\ editingId = 0
    /\ localStorage[AssetsKey] = NoItem

\* C25: a change made to the asset collection while a price refresh is in
\* flight is still there after the refresh: the refresh applies the returned
\* prices to the collection as it is when the refresh completes, in memory and
\* in the store.
C25_RefreshKeepsConcurrentChanges ==
    [][(RefreshDone /\ ~priceFetch.raised) =>
          /\ mem'[AssetsKey] = ApplyPrices(priceFetch.prices, mem[AssetsKey])
          /\ Persisted(AssetsKey)']_vars

\* C26: a price refresh that completes with the collection as it was when the
\* refresh started keeps the number, the ids and the order of the assets, and
\* changes the price of an asset only to a price returned under a key equal,
\* ignoring case, to the asset's ticker-or-name; an asset without such a key
\* keeps its price, and so does every asset when nothing was returned.
C26_RefreshFrame ==
    [][(RefreshDone /\ mem[AssetsKey] = refresh.closure) =>
          LET before == mem[AssetsKey]
              after == mem'[AssetsKey]
              prices == priceFetch.prices
              KeysFor(id) == { k \in DOMAIN prices :
                                 ToLowerCase(k) = ToLowerCase(PriceKey(AssetInfo(id))) }
          IN  /\ Len(after) = Len(before)
              /\ \A i \in DOMAIN before :
                    /\ after[i].id = before[i].id
                    /\ after[i].val # before[i].val
                          => \E k \in KeysFor(before[i].id) : after[i].val = prices[k]
                    /\ KeysFor(before[i].id) = {} => after[i] = before[i]
              /\ prices = NoPrices => after = before]_vars

\* A refresh has completed with nothing in between: Bitcoin has the returned
\* price, Apple and the cash reserve have the prices they had.
C26_Witness ==
    /\ ~refresh.active
    /\ crudLeft = RefreshCrudBudget - 1
    /\ mem[AssetsKey] = << SeedAssets[1], [id |-> 2, val |-> "65000"], SeedAssets[3] >>
    /\ Persisted(AssetsKey)

\* C27: a price refresh never changes the price of an asset of type CASH.
C27_CashPriceUntouched ==
    [][RefreshDone =>
          \A i \in DOMAIN mem[AssetsKey] : \A j \in DOMAIN mem'[AssetsKey] :
             (/\ mem'[AssetsKey][j].id = mem[AssetsKey][i].id
              /\ AssetInfo(mem[AssetsKey][i].id).type = "CASH")
                => mem'[AssetsKey][j].val = mem[AssetsKey][i].val]_vars

\* C28: the content of an upload is determined by the four collections and the
\* upload time only: it has one entry per collection, holding the serialized
\* collection, and the time; no field of the sync configuration is in it.
C28_UploadContentOnlyCollections ==
    [][UploadStart =>
          \A op \in inflight' \ inflight :
             /\ DOMAIN op.content = {"payload", "lastUpdated"}
             /\ op.content.lastUpdated = now
             /\ DOMAIN op.content.payload = CollKeys
             /\ \A k \in CollKeys :
                   op.content.payload[k] = [t |-> "list", items |-> StringifyList(mem[k])]]_vars

\* An upload made with a stored token is in flight, and it carries a
\* collection that was changed through a form.
C28_Witness ==
    \E op \in inflight :
       /\ op.kind = "upload"
       /\ op.cfg.githubToken = "ghp_token"
       /\ op.content.payload[AssetsKey].items = StringifyList(mem[AssetsKey])
       /\ mem[AssetsKey] # SeedAssets

\* C29: whenever the form of a record view is in edit mode, the id being
\* edited is the id of a record of the view's collection.
C29_EditedRecordListed ==
    (route \in CrudRoutes /\ editingId # 0)
        => \E i \in DOMAIN mem[KeyOf(route)] : mem[KeyOf(route)][i].id = editingId

\* C30: no save through the form of the options journal sets or changes a
\* closePrice: a trade the form created has none, in every state, and a save
\* leaves the closePrice of every trade that was listed as it was.
C30_FormNeverWritesClosePrice ==
    [][/\ \A j \in DOMAIN mem'[TradesKey] :
             mem'[TradesKey][j].id >= FirstNow
                => ClosePriceOf(mem'[TradesKey][j]) = "undefined"
       /\ (SaveRecord /\ route = "/options") =>
             LET before == mem[TradesKey]
                 after == mem'[TradesKey]
             IN  /\ \A i \in DOMAIN before :
                       \E j \in DOMAIN after :
                          /\ after[j].id = before[i].id
                          /\ ClosePriceOf(after[j]) = ClosePriceOf(before[i])
                 /\ \A j \in DOMAIN after :
                       (\A i \in DOMAIN before : before[i].id # after[j].id)
                          => ClosePriceOf(after[j]) = "undefined"]_vars

\* The journal lists a trade the form created, without closePrice, and the
\* stored closed trade after an update through the form, with the closePrice
\* it had; the store holds both.
C30_Witness ==
    /\ Len(mem[TradesKey]) = 2
    /\ mem[TradesKey][1].id >= FirstNow
    /\ "closePrice" \notin DOMAIN mem[TradesKey][1]
    /\ mem[TradesKey][2] = [ClosedTrade EXCEPT !.val = "100"]
    /\ Persisted(TradesKey)

====
